---- MODULE Spec2Model ----
(***************************************************************************)
(* Model of the tool handlers of app/server.py and of the helpers of       *)
(* app/puca/utils.py they call.  One tool invocation runs at a time (the   *)
(* handlers share no state); an invocation advances from one external call *)
(* to the next, and ends either by returning a text (pc = "done") or by an *)
(* exception that no handler catches (pc = "fault").                       *)
(*                                                                         *)
(* Units.  Latitudes and longitudes are integers in microdegrees, radii    *)
(* are integer metres (the tools declare `distance: int`).                 *)
(* The density ratio is a real multiple of 1/pi and is kept exactly, as    *)
(* the pair num/den of that multiple (see DensityRatio).                   *)
(*                                                                         *)
(* Library behaviour the handlers rely on:                                 *)
(*  - `await e` evaluates e and raises TypeError when the value is not     *)
(*    awaitable; every helper of utils.py is a plain `def`.                *)
(*  - geopy.point.Point(lat, lon) (geopy >= 2.0) raises ValueError when    *)
(*    |lat| > 90 and wraps a longitude outside [-180, 180] into it.        *)
(*  - requests.get / overpy.Overpass.query raise on a transport failure.   *)
(***************************************************************************)
EXTENDS Integers, Sequences, FiniteSets, TLC

VARIABLES
    tool,           \* name of the handler being run, "none" between invocations
    pc,             \* position in the handler
    args,           \* the handler's arguments
    world,          \* what the external services answer during this invocation
    bounding_box,   \* local `bounding_box` of the handler
    result,         \* local holding the spatial query's result
    query_template, \* the query document handed to overpass.query
    calls,          \* external calls issued so far in this invocation, in order
    return_text     \* the value the handler returns

vars == <<tool, pc, args, world, bounding_box, result, query_template, calls, return_text>>

(***************************************************************************)
(* Bounds of the model.                                                    *)
(***************************************************************************)
MaxFeatures == 3        \* longest list of ways (or nodes) the store answers with
MaxRadius == 20000      \* largest radius tried, metres

(***************************************************************************)
(* Program constants.                                                      *)
(***************************************************************************)
DISTANCE == 100                 \* config.DISTANCE
MetresPerDegree == 111000       \* utils.get_bounding_box
SqMetresPerSqKm == 1000000      \* server.get_vacant_buildings

Micro == 1000 * 1000            \* microdegrees per degree (unit of the model)
LatMax == 90 * Micro
LonMax == 180 * Micro

(***************************************************************************)
(* utils.validate_coordinates                                              *)
(***************************************************************************)
validate_coordinates(lat, lon) ==
    IF (-LatMax <= lat /\ lat <= LatMax) /\ (-LonMax <= lon /\ lon <= LonMax)
    THEN TRUE
    ELSE FALSE

(***************************************************************************)
(* geopy.point.Point(latitude, longitude) as utils.get_bounding_box uses   *)
(* it: ValueError for a latitude outside [-90, 90], a longitude outside    *)
(* [-180, 180] is wrapped by ((lon + 180) % 360) - 180.                    *)
(***************************************************************************)
Point(latitude, longitude) ==
    IF latitude > LatMax \/ latitude < -LatMax
    THEN [ok |-> FALSE, latitude |-> 0, longitude |-> 0]
    ELSE [ok |-> TRUE,
          latitude |-> latitude,
          longitude |-> IF longitude > LonMax \/ longitude < -LonMax
                        THEN ((longitude + LonMax) % (2 * LonMax)) - LonMax
                        ELSE longitude]

(***************************************************************************)
(* abs(math.cos(math.radians(lat))) * 1000, rounded, for the latitudes the *)
(* model tries.  At +/-90 degrees the float cosine is 6.1e-17: 0 here.     *)
(***************************************************************************)
CosMilli(lat) ==
    LET a == IF lat < 0 THEN -lat ELSE lat
    IN CASE a = 0 -> 1000
         [] a = 53 * Micro -> 602
         [] a = 60 * Micro -> 500
         [] a = 85 * Micro -> 87
         [] a = 90 * Micro -> 0

\* A longitude offset too large for the model's integers: what
\* distance / (111000.0 * 6.1e-17) gives for a non-zero distance.
Diverged == 1000 * Micro

\* A latitude one ten-thousandth of a degree from a pole, and
\* 1 / cos(radians(89.9999)), rounded.
NearPole == 90 * Micro - 100
NearPoleSecant == 572958

\* utils.get_bounding_box, line 129, from lat_offset:
\* distance / (111000.0 * abs(cos(radians(lat)))) = lat_offset / abs(cos).
LonOffset(lat, lat_offset) ==
    LET a == IF lat < 0 THEN -lat ELSE lat
    IN IF a = NearPole
       THEN (IF lat_offset > Diverged \div NearPoleSecant
             THEN Diverged ELSE lat_offset * NearPoleSecant)
       ELSE IF CosMilli(lat) = 0
       THEN (IF lat_offset = 0 THEN 0 ELSE Diverged)
       ELSE (lat_offset * 1000) \div CosMilli(lat)

\* No box: get_bounding_box raised instead of returning one.
NoBox == [ok |-> FALSE, top_left_lat |-> 0, top_left_lon |-> 0,
          bottom_right_lat |-> 0, bottom_right_lon |-> 0]

\* get_bounding_box with the two latitude offsets exchanged.
get_bounding_box_swapped(lat, lon, distance) ==
    LET center_point == Point(lat, lon)
        lat_offset == (distance * 1000) \div (MetresPerDegree \div 1000)
        lon_offset == LonOffset(lat, lat_offset)
        top_left == Point(lat - lat_offset, lon - lon_offset)
        bottom_right == Point(lat + lat_offset, lon + lon_offset)
    IN IF ~center_point.ok THEN NoBox
       ELSE IF ~top_left.ok THEN NoBox
       ELSE IF ~bottom_right.ok THEN NoBox
       ELSE [ok |-> TRUE,
             top_left_lat |-> top_left.latitude,
             top_left_lon |-> top_left.longitude,
             bottom_right_lat |-> bottom_right.latitude,
             bottom_right_lon |-> bottom_right.longitude]

\* get_bounding_box keeping the corners' latitudes within range itself, so
\* that Point accepts them whatever the offset.
get_bounding_box_clamped(lat, lon, distance) ==
    LET center_point == Point(lat, lon)
        lat_offset == (distance * 1000) \div (MetresPerDegree \div 1000)
        lon_offset == LonOffset(lat, lat_offset)
        top == IF lat + lat_offset > LatMax THEN LatMax ELSE lat + lat_offset
        bottom == IF lat - lat_offset < -LatMax THEN -LatMax ELSE lat - lat_offset
        top_left == Point(top, lon - lon_offset)
        bottom_right == Point(bottom, lon + lon_offset)
    IN IF ~center_point.ok THEN NoBox
       ELSE [ok |-> TRUE,
             top_left_lat |-> top_left.latitude,
             top_left_lon |-> top_left.longitude,
             bottom_right_lat |-> bottom_right.latitude,
             bottom_right_lon |-> bottom_right.longitude]

(***************************************************************************)
(* utils.get_bounding_box                                                  *)
(***************************************************************************)
get_bounding_box(lat, lon, distance) ==
    LET center_point == Point(lat, lon)
        lat_offset == (distance * 1000) \div (MetresPerDegree \div 1000)
        lon_offset == LonOffset(lat, lat_offset)
        top_left == Point(lat + lat_offset, lon - lon_offset)
        bottom_right == Point(lat - lat_offset, lon + lon_offset)
    IN IF ~center_point.ok THEN NoBox
       ELSE IF ~top_left.ok THEN NoBox
       ELSE IF ~bottom_right.ok THEN NoBox
       ELSE [ok |-> TRUE,
             top_left_lat |-> top_left.latitude,
             top_left_lon |-> top_left.longitude,
             bottom_right_lat |-> bottom_right.latitude,
             bottom_right_lon |-> bottom_right.longitude]

(***************************************************************************)
(* server.get_bounds_by_coords is imported from puca.utils (server.py:15)  *)
(* but utils.py does not define it; it is taken to be the bounding-box     *)
(* computation of the design (computeBoundingBox of a centre and radius).  *)
(***************************************************************************)
get_bounds_by_coords(lat, lon, distance) == get_bounding_box(lat, lon, distance)

(***************************************************************************)
(* utils.query_overpass, lines 59-65: the query document, as the sequence  *)
(* of the values the template interpolates, in textual order.              *)
(***************************************************************************)
QueryDocument(query, box) ==
    [query |-> query,
     params |-> <<box.bottom_right_lat, box.top_left_lon,
                  box.top_left_lat, box.bottom_right_lon>>]

NoDocument == [query |-> "", params |-> <<>>]

(***************************************************************************)
(* The filter fragment each handler asks for.                              *)
(***************************************************************************)
\* get_amenity_query matching "Cafe" as it matches "cafe".
get_amenity_query_anycase(amenity) ==
    IF amenity = "parking" THEN [ok |-> TRUE, query_string |-> "nwr[amenity=parking]"]
    ELSE IF amenity = "toilets" THEN [ok |-> TRUE, query_string |-> "nwr[amenity=toilets]"]
    ELSE IF amenity = "community_centre"
        THEN [ok |-> TRUE, query_string |-> "nwr[amenity=community_centre]"]
    ELSE IF amenity = "post_office"
        THEN [ok |-> TRUE, query_string |-> "nwr[amenity=post_office]"]
    ELSE IF amenity \in {"cafe", "Cafe"}
        THEN [ok |-> TRUE, query_string |-> "nwr[amenity=cafe]"]
    ELSE IF amenity = "fast_food"
        THEN [ok |-> TRUE, query_string |-> "nwr[amenity=fast_food]"]
    ELSE [ok |-> FALSE, query_string |-> amenity]

\* amenity.get_amenity, lines 14-27: the if/elif chain.
get_amenity_query(amenity) ==
    IF amenity = "parking" THEN [ok |-> TRUE, query_string |-> "nwr[amenity=parking]"]
    ELSE IF amenity = "toilets" THEN [ok |-> TRUE, query_string |-> "nwr[amenity=toilets]"]
    ELSE IF amenity = "community_centre"
        THEN [ok |-> TRUE, query_string |-> "nwr[amenity=community_centre]"]
    ELSE IF amenity = "post_office"
        THEN [ok |-> TRUE, query_string |-> "nwr[amenity=post_office]"]
    ELSE IF amenity = "cafe" THEN [ok |-> TRUE, query_string |-> "nwr[amenity=cafe]"]
    ELSE IF amenity = "fast_food"
        THEN [ok |-> TRUE, query_string |-> "nwr[amenity=fast_food]"]
    ELSE [ok |-> FALSE, query_string |-> amenity]

AmenityTools ==
    {"get_toilets", "get_post_offices", "get_cafes", "get_fast_food_places"}

\* The `amenity` each handler passes to get_amenity (server.py:144,184,209,234,258).
AmenityOf(t) ==
    CASE t = "get_parking" -> "parking"
      [] t = "get_toilets" -> "toilets"
      [] t = "get_post_offices" -> "post_office"
      [] t = "get_cafes" -> "cafe"
      [] t = "get_fast_food_places" -> "fast_food"

\* building.vacant, thoroughfare.irish_street_names, amenity.get_amenity.
FilterOf(t) ==
    CASE t = "get_vacant_buildings" -> "nwr[building][vacant=yes]"
      [] t = "get_irish_street_names" -> "way[name:ga]"
      [] t = "get_amenity" -> get_amenity_query(args.query).query_string
      [] OTHER -> get_amenity_query(AmenityOf(t)).query_string

(***************************************************************************)
(* Features and tags.  A feature is [id, tags]; tags is the ordered        *)
(* mapping of the feature, as a sequence of <<key, value>> pairs with      *)
(* distinct keys.                                                          *)
(***************************************************************************)
HasTag(tags, key) == \E k \in 1..Len(tags) : tags[k][1] = key

\* dict.get(key, default)
TagGet(tags, key, default) ==
    IF HasTag(tags, key)
    THEN tags[CHOOSE k \in 1..Len(tags) : tags[k][1] = key][2]
    ELSE default

\* The lists of at most MaxFeatures features whose tags are drawn from
\* `choices`; the i-th feature of a list has id i (ids are unique within a
\* kind of feature, and a node and a way may carry the same id).
FeatureLists(choices) ==
    UNION { { [i \in 1..n |-> [id |-> i, tags |-> f[i]]] : f \in [1..n -> choices] }
            : n \in 0..MaxFeatures }

IrishTags ==
    { << <<"name:ga", "An tSraid Mhor">>, <<"name", "Main St">> >>,
      << <<"name:ga", "Priomhshraid">>, <<"name", "Main St">> >>,
      << <<"name:ga", "Bothar an Teampaill">>, <<"name", "Church Rd">> >>,
      << <<"name:ga", "Sraid an Droichid">> >> }

VacantTags == { << <<"building", "yes">>, <<"vacant", "yes">> >> }

AmenityTags == { << <<"amenity", "x">>, <<"name", "A">> >> }

ParkingTags ==
    { << <<"amenity", "parking">>, <<"name", "Quay">>, <<"fee", "no">> >>,
      << <<"amenity", "parking">> >>,
      << <<"surface", "asphalt">>, <<"capacity", "40">>, <<"operator", "NMDDC">>,
         <<"access", "customers">>, <<"parking", "surface">>, <<"name", "Quay">>,
         <<"fee", "yes">>, <<"amenity", "parking">>, <<"website", "quay.example">> >>,
      << <<"amenity", "parking">>, <<"operator", "">>, <<"access", "yes">> >> }

DefibTags == { << <<"emergency", "defibrillator">>, <<"access", "yes">> >> }

(***************************************************************************)
(* The external services.                                                  *)
(***************************************************************************)
\* Forward geocoder (utils.get_address_coordinates): the request raises, or
\* the answer is None (status not 200, or an empty list), or Coordinates.
GeoAnswers ==
    { [status |-> "error", lat |-> 0, lon |-> 0],
      [status |-> "notfound", lat |-> 0, lon |-> 0] }
    \cup { [status |-> "found", lat |-> c[1] * Micro, lon |-> c[2] * Micro] :
             c \in { <<53, -6>>, <<85, 180>>, <<-85, -180>>, <<-60, 0>>, <<0, 0>>,
                     <<90, 0>> } }
    \cup { [status |-> "found", lat |-> l, lon |-> 0] :
             l \in {NearPole, -NearPole, -90 * Micro} }

NoGeo == [status |-> "unused", lat |-> 0, lon |-> 0]

\* The spatial store (overpy.Overpass.query): it raises, or answers with
\* the matching nodes, ways and relations.
EmptyResult == [status |-> "ok", nodes |-> <<>>, ways |-> <<>>, relations |-> <<>>]
StoreError == [status |-> "error", nodes |-> <<>>, ways |-> <<>>, relations |-> <<>>]
NoResult == [status |-> "unused", nodes |-> <<>>, ways |-> <<>>, relations |-> <<>>]

StoreAnswers(t) ==
    {StoreError} \cup
    CASE t = "get_irish_street_names" ->
            { [EmptyResult EXCEPT !.ways = w] : w \in FeatureLists(IrishTags) }
      [] t = "get_vacant_buildings" ->
            { [EmptyResult EXCEPT !.ways = w, !.nodes = n] :
                w \in FeatureLists(VacantTags), n \in FeatureLists(VacantTags) }
      [] t = "get_parking" ->
            { [EmptyResult EXCEPT !.ways = w] : w \in FeatureLists(ParkingTags) }
      [] t = "get_defibrillators" ->
            { [EmptyResult EXCEPT !.nodes = n] : n \in FeatureLists(DefibTags) }
      [] OTHER ->
            { [EmptyResult EXCEPT !.ways = w, !.nodes = n] :
                w \in FeatureLists(AmenityTags), n \in FeatureLists(AmenityTags) }

\* Route service (utils.get_distance_between_points): the request raises,
\* the status is not 200, the body has no route, or it has a distance.
RouteAnswers ==
    { [status |-> "error", distance |-> 0],
      [status |-> "non200", distance |-> 0],
      [status |-> "noroute", distance |-> 0],
      [status |-> "ok", distance |-> 1234] }

NoRoute == [status |-> "unused", distance |-> 0]

\* The per-feature lookups of get_defibrillators that fail or find nothing
\* during the invocation: pairs <<index of the feature, lookup>>.
FailedLookups ==
    { {}, {<<2, "address">>}, {<<1, "distance">>, <<1, "building">>} }

NoWorld == [geo |-> NoGeo, store |-> NoResult, route |-> NoRoute, failed |-> {}]

(***************************************************************************)
(* Inputs.                                                                 *)
(***************************************************************************)
Radii == {0, 1, DISTANCE, MaxRadius}
Lats == {0, 53 * Micro, -85 * Micro, 90 * Micro, 91 * Micro, -91 * Micro}
Lons == {0, -180 * Micro, 181 * Micro}
Addresses == {"9 Sugar Island, Newry"}
AddressTools ==
    AmenityTools \cup {"get_parking", "get_irish_street_names",
                       "get_vacant_buildings", "get_defibrillators"}

NoArgs == [address |-> "", distance |-> 0, query |-> "",
           lat |-> 0, lon |-> 0, lat2 |-> 0, lon2 |-> 0]

(***************************************************************************)
(* What a handler returns.  kind is "None" while nothing is returned,      *)
(* "message" for a text that reports a failure to the user, "text" for a   *)
(* plain answer, "report" for a count line followed by detail lines.       *)
(***************************************************************************)
NoRatio == [num |-> 0, den |-> 0]
Nothing == [kind |-> "None", count |-> 0, ratio |-> NoRatio, lines |-> <<>>]
Message == [Nothing EXCEPT !.kind = "message"]
Text == [Nothing EXCEPT !.kind = "text"]
Report(count, ratio, lines) ==
    [kind |-> "report", count |-> count, ratio |-> ratio, lines |-> lines]

\* amenity.get_amenity, line 27: the text returned for an unknown amenity;
\* lines holds the value the text interpolates.
AmenityError(amenity) == [Nothing EXCEPT !.kind = "error", !.lines = <<amenity>>]

\* amenity.get_amenity, line 30: the store's result is returned as it is.
ResultReturned == [Nothing EXCEPT !.kind = "result"]

Init ==
    /\ tool = "none"
    /\ pc = "idle"
    /\ args = NoArgs
    /\ world = NoWorld
    /\ bounding_box = NoBox
    /\ result = NoResult
    /\ query_template = NoDocument
    /\ calls = <<>>
    /\ return_text = Nothing

\* The handler ends: return_text is what it returns.
Return(text) ==
    /\ pc' = "done"
    /\ return_text' = text

\* The handler ends by an exception nothing catches.
Raise ==
    /\ pc' = "fault"
    /\ return_text' = Nothing

(***************************************************************************)
(* A request arrives: FastMCP calls the handler registered by @mcp.tool()  *)
(* with the request's arguments.  The answers the external services give   *)
(* during the invocation are fixed here and read when the call is made.    *)
(***************************************************************************)
InvokeAddressTool ==
    /\ pc = "idle"
    /\ \E t \in AddressTools, a \in Addresses, d \in Radii, g \in GeoAnswers :
      \E s \in StoreAnswers(t) :
        \E fl \in (IF t = "get_defibrillators" THEN FailedLookups ELSE {{}}) :
          /\ tool' = t
          /\ args' = [NoArgs EXCEPT !.address = a, !.distance = d]
          /\ world' = [NoWorld EXCEPT !.geo = g, !.store = s, !.failed = fl]
          /\ pc' = IF t = "get_defibrillators" THEN "L68" ELSE "bounds"
          /\ UNCHANGED <<bounding_box, result, query_template, calls, return_text>>

InvokeDistanceBetweenCoords ==
    /\ pc = "idle"
    /\ \E lat1 \in Lats, lon1 \in Lons, lat2 \in Lats, lon2 \in Lons, r \in RouteAnswers :
      /\ tool' = "get_distance_between_coords"
      /\ args' = [NoArgs EXCEPT !.lat = lat1, !.lon = lon1, !.lat2 = lat2, !.lon2 = lon2]
      /\ world' = [NoWorld EXCEPT !.route = r]
      /\ pc' = "L127"
      /\ UNCHANGED <<bounding_box, result, query_template, calls, return_text>>

InvokeAddressByCoordinates ==
    /\ pc = "idle"
    /\ \E lat \in Lats, lon \in Lons :
      /\ tool' = "get_address_by_coordinates"
      /\ args' = [NoArgs EXCEPT !.lat = lat, !.lon = lon]
      /\ world' = NoWorld
      /\ pc' = "L53"
      /\ UNCHANGED <<bounding_box, result, query_template, calls, return_text>>

RawQueries == {"nwr[building=school]"}

InvokeQueryOverpass ==
    /\ pc = "idle"
    /\ \E q \in RawQueries, lat \in Lats, lon \in Lons, d \in Radii :
      /\ tool' = "query_overpass"
      /\ args' = [NoArgs EXCEPT !.query = q, !.lat = lat, !.lon = lon, !.distance = d]
      /\ world' = NoWorld
      /\ pc' = "L342"
      /\ UNCHANGED <<bounding_box, result, query_template, calls, return_text>>

(***************************************************************************)
(* amenity.get_amenity called on its own, with any amenity string (in      *)
(* args.query) and a box that get_bounding_box produced.                   *)
(***************************************************************************)
AmenityNames ==
    {"parking", "toilets", "community_centre", "post_office", "cafe", "fast_food",
     "swimming_pool", "Cafe", ""}

InvokeGetAmenity ==
    /\ pc = "idle"
    /\ \E a \in AmenityNames, d \in Radii \ {0},
          s \in {StoreError} \cup
                 { [EmptyResult EXCEPT !.nodes = n] : n \in FeatureLists(AmenityTags) } :
      /\ tool' = "get_amenity"
      /\ args' = [NoArgs EXCEPT !.query = a, !.distance = d]
      /\ world' = [NoWorld EXCEPT !.store = s]
      /\ bounding_box' = get_bounding_box(53 * Micro, -6 * Micro, d)
      /\ pc' = "L14"
      /\ UNCHANGED <<result, query_template, calls, return_text>>

(***************************************************************************)
(* amenity.get_amenity, lines 14-30, with utils.query_overpass.            *)
(***************************************************************************)
get_amenity ==
    /\ tool = "get_amenity"
    /\ pc = "L14"
    /\ LET q == get_amenity_query(args.query)
       IN IF ~q.ok
          THEN /\ Return(AmenityError(args.query))
               /\ UNCHANGED <<query_template, calls, result>>
          ELSE /\ query_template' = QueryDocument(q.query_string, bounding_box)
               /\ calls' = Append(calls, "spatialQuery")
               /\ IF world.store.status = "error"
                  THEN Raise /\ UNCHANGED result       \* overpass.query raised
                  ELSE /\ result' = world.store
                       /\ Return(ResultReturned)
    /\ UNCHANGED <<tool, args, world, bounding_box>>

(***************************************************************************)
(* server.get_distance_between_coords, lines 127-130, with                 *)
(* utils.get_distance_between_points, lines 87-95.                         *)
(***************************************************************************)
get_distance_between_coords ==
    /\ tool = "get_distance_between_coords"
    /\ pc = "L127"
    /\ IF \/ ~validate_coordinates(args.lat, args.lon)
          \/ ~validate_coordinates(args.lat2, args.lon2)
       THEN /\ Return(Message)
            /\ UNCHANGED calls
       ELSE /\ calls' = Append(calls, "routeDistance")
            /\ IF world.route.status \in {"error", "noroute"}
               THEN Raise              \* requests.get raised, or data['routes'][0] did
               ELSE Return(Text)       \* a distance, or "Unknown" for a status not 200
    /\ UNCHANGED <<tool, args, world, bounding_box, result, query_template>>

(***************************************************************************)
(* server.get_address_by_coordinates, line 53: the reverse geocoder is     *)
(* called with the arguments as given; utils.get_address_from_coordinates  *)
(* returns a str or None (or raises), and `await` of either raises.        *)
(***************************************************************************)
get_address_by_coordinates ==
    /\ tool = "get_address_by_coordinates"
    /\ pc = "L53"
    /\ calls' = Append(calls, "geocodeReverse")
    /\ Raise
    /\ UNCHANGED <<tool, args, world, bounding_box, result, query_template>>

(***************************************************************************)
(* server.query_overpass, line 342.                                        *)
(***************************************************************************)
query_overpass_bounds ==
    /\ tool = "query_overpass"
    /\ pc = "L342"
    /\ LET box == get_bounds_by_coords(args.lat, args.lon, args.distance)
       IN IF box.ok
          THEN /\ bounding_box' = box
               /\ pc' = "L343"
               /\ UNCHANGED return_text
          ELSE /\ Raise
               /\ UNCHANGED bounding_box
    /\ UNCHANGED <<tool, args, world, result, query_template, calls>>

(***************************************************************************)
(* server.query_overpass, line 343: server.py does not import              *)
(* utils.query_overpass, so the name is the handler itself, which is       *)
(* called with two positional arguments and without `lon`: TypeError.      *)
(***************************************************************************)
query_overpass_call ==
    /\ tool = "query_overpass"
    /\ pc = "L343"
    /\ Raise
    /\ UNCHANGED <<tool, args, world, bounding_box, result, query_template, calls>>

(***************************************************************************)
(* server.get_defibrillators, line 68: the forward geocoder is called;     *)
(* utils.get_address_coordinates returns Coordinates or None (or raises),  *)
(* and `await` of either raises.  Lines 69-90 are never reached.           *)
(***************************************************************************)
get_defibrillators ==
    /\ tool = "get_defibrillators"
    /\ pc = "L68"
    /\ calls' = Append(calls, "geocodeForward")
    /\ Raise
    /\ UNCHANGED <<tool, args, world, bounding_box, result, query_template>>

(***************************************************************************)
(* utils.get_bounds_by_address, lines 144-152, the first statement of the  *)
(* other address tools, with utils.get_address_coordinates.                *)
(***************************************************************************)
get_bounds_by_address ==
    /\ tool \in AddressTools \ {"get_defibrillators"}
    /\ pc = "bounds"
    /\ calls' = Append(calls, "geocodeForward")
    /\ LET coords == world.geo
       IN IF coords.status = "error"
          THEN Raise /\ UNCHANGED bounding_box      \* requests.get raised
          ELSE IF coords.status = "notfound"
          THEN Raise /\ UNCHANGED bounding_box      \* coords is None: coords.lat
          ELSE LET box == get_bounding_box(coords.lat, coords.lon, args.distance)
               IN IF box.ok
                  THEN /\ bounding_box' = box
                       /\ pc' = "query"
                       /\ UNCHANGED return_text
                  ELSE Raise /\ UNCHANGED bounding_box
    /\ UNCHANGED <<tool, args, world, result, query_template>>

(***************************************************************************)
(* utils.query_overpass, lines 55-68, as called by amenity.get_amenity     *)
(* (line 29), building.vacant and thoroughfare.irish_street_names.         *)
(***************************************************************************)
utils_query_overpass ==
    /\ pc = "query"
    /\ query_template' = QueryDocument(FilterOf(tool), bounding_box)
    /\ calls' = Append(calls, "spatialQuery")
    /\ IF world.store.status = "error"
       THEN Raise /\ UNCHANGED result               \* overpass.query raised
       ELSE /\ result' = world.store
            /\ pc' = "format"
            /\ UNCHANGED return_text
    /\ UNCHANGED <<tool, args, world, bounding_box>>

(***************************************************************************)
(* Detail lines.  A line is [kind, id, fields]: kind and id are the two    *)
(* parts of its URL https://openstreetmap.org/<kind>/<id>, fields is what  *)
(* precedes the URL, in order.                                             *)
(***************************************************************************)
Line(kind, id, fields) == [kind |-> kind, id |-> id, fields |-> fields]

\* TagLines with a line saying that nothing was found for an empty list.
TagLinesOrPlaceholder(kind, features) ==
    IF features = <<>> THEN << Line(kind, 0, <<>>) >>
    ELSE [i \in 1..Len(features) |-> Line(kind, features[i].id, features[i].tags)]

\* server.py lines 189-192, 193-196 and alike: every tag, then the URL.
TagLines(kind, features) ==
    [i \in 1..Len(features) |-> Line(kind, features[i].id, features[i].tags)]

\* server.get_parking, lines 147-171: the tags shown and their labels.
ParkingFields ==
    << <<"name", "Name">>, <<"parking", "Type">>, <<"access", "Access">>,
       <<"operator", "Operator">>, <<"capacity", "Capacity">>,
       <<"fee", "Cost">>, <<"surface", "Surface Type">> >>

\* way_text showing every tag of ParkingFields that the mapping has.
RECURSIVE way_text_present(_, _)
way_text_present(tags, k) ==
    IF k > Len(ParkingFields) THEN <<>>
    ELSE (IF HasTag(tags, ParkingFields[k][1])
          THEN << <<ParkingFields[k][2], TagGet(tags, ParkingFields[k][1], "")>> >>
          ELSE <<>>) \o way_text_present(tags, k + 1)

\* server.get_parking, lines 148-170: a field for each tag of ParkingFields
\* whose value is truthy (tag values are strings: a non-empty string).
RECURSIVE way_text(_, _)
way_text(tags, k) ==
    IF k > Len(ParkingFields) THEN <<>>
    ELSE (IF TagGet(tags, ParkingFields[k][1], "") # ""
          THEN << <<ParkingFields[k][2], TagGet(tags, ParkingFields[k][1], "")>> >>
          ELSE <<>>) \o way_text(tags, k + 1)

(***************************************************************************)
(* server.get_parking, lines 145-172.                                      *)
(***************************************************************************)
get_parking ==
    /\ tool = "get_parking"
    /\ pc = "format"
    /\ Return(Report(Len(result.ways), NoRatio,
                     [i \in 1..Len(result.ways) |->
                        Line("way", result.ways[i].id, way_text(result.ways[i].tags, 1))]))
    /\ UNCHANGED <<tool, args, world, bounding_box, result, query_template, calls>>

(***************************************************************************)
(* server.get_toilets, get_post_offices, get_cafes, get_fast_food_places:  *)
(* lines 188-197, 213-222, 238-247, 262-271.                               *)
(***************************************************************************)
get_amenity_places ==
    /\ tool \in AmenityTools
    /\ pc = "format"
    /\ Return(Report(Len(result.nodes), NoRatio,
                     TagLines("node", result.nodes) \o TagLines("way", result.ways)))
    /\ UNCHANGED <<tool, args, world, bounding_box, result, query_template, calls>>

(***************************************************************************)
(* server.get_irish_street_names, lines 285-294.                           *)
(***************************************************************************)
\* NotObserved comparing with the last name observed only.
NotObservedLast(name, observed_ways) ==
    observed_ways = <<>> \/ observed_ways[Len(observed_ways)] # name

\* line 291: way.tags["name"] not in observed_ways
NotObserved(name, observed_ways) ==
    \A k \in 1..Len(observed_ways) : observed_ways[k] # name

\* lines 289-293: the loop from the i-th way on; ok is FALSE when
\* way.tags["name"] or way.tags["name:ga"] raises KeyError.
RECURSIVE IrishLoop(_, _, _, _)
IrishLoop(ways, i, observed_ways, lines) ==
    IF i > Len(ways) THEN [ok |-> TRUE, lines |-> lines]
    ELSE IF ~HasTag(ways[i].tags, "name") THEN [ok |-> FALSE, lines |-> lines]
    ELSE LET name == TagGet(ways[i].tags, "name", "")
         IN IF NotObserved(name, observed_ways)
            THEN IF ~HasTag(ways[i].tags, "name:ga") THEN [ok |-> FALSE, lines |-> lines]
                 ELSE IrishLoop(ways, i + 1, Append(observed_ways, name),
                          Append(lines, Line("node", ways[i].id,
                                     <<TagGet(ways[i].tags, "name:ga", ""), name>>)))
            ELSE IrishLoop(ways, i + 1, observed_ways, lines)

\* lines 285-288: the number in the count line.
IrishCount(ways) == Len(ways)

get_irish_street_names ==
    /\ tool = "get_irish_street_names"
    /\ pc = "format"
    /\ LET loop == IrishLoop(result.ways, 1, <<>>, <<>>)
       IN IF loop.ok
          THEN Return(Report(IrishCount(result.ways), NoRatio, loop.lines))
          ELSE Raise
    /\ UNCHANGED <<tool, args, world, bounding_box, result, query_template, calls>>

(***************************************************************************)
(* server.get_vacant_buildings, lines 308-329.                             *)
(***************************************************************************)
\* lines 308-310: math.pi * (distance * distance) / 1_000_000, as the
\* rational multiple num/den of pi.
area_sq_km(distance) == [num |-> distance * distance, den |-> SqMetresPerSqKm]

\* DensityRatio without the test of line 312.
DensityRatioUnguarded(n, distance) ==
    [num |-> n * area_sq_km(distance).den, den |-> area_sq_km(distance).num]

\* lines 312-315: len(ways) / area_sq_km, or 0; as the rational multiple
\* num/den of 1/pi.
DensityRatio(n, distance) ==
    LET area == area_sq_km(distance)
    IN IF area.num > 0
       THEN [num |-> n * area.den, den |-> area.num]
       ELSE [num |-> 0, den |-> 1]

get_vacant_buildings ==
    /\ tool = "get_vacant_buildings"
    /\ pc = "format"
    /\ Return(Report(Len(result.ways),
                     DensityRatio(Len(result.ways), args.distance),
                     TagLines("way", result.ways) \o TagLines("node", result.nodes)))
    /\ UNCHANGED <<tool, args, world, bounding_box, result, query_template, calls>>

(***************************************************************************)
(* The invocation is over; nothing of it is kept (the handlers' state is   *)
(* local), and the server waits for the next request.                      *)
(***************************************************************************)
Finish ==
    /\ pc \in {"done", "fault"}
    /\ tool' = "none"
    /\ pc' = "idle"
    /\ args' = NoArgs
    /\ world' = NoWorld
    /\ bounding_box' = NoBox
    /\ result' = NoResult
    /\ query_template' = NoDocument
    /\ calls' = <<>>
    /\ return_text' = Nothing

Next ==
    \/ InvokeAddressTool
    \/ InvokeDistanceBetweenCoords
    \/ InvokeAddressByCoordinates
    \/ InvokeQueryOverpass
    \/ InvokeGetAmenity
    \/ get_amenity
    \/ get_distance_between_coords
    \/ get_address_by_coordinates
    \/ query_overpass_bounds
    \/ query_overpass_call
    \/ get_defibrillators
    \/ get_bounds_by_address
    \/ utils_query_overpass
    \/ get_parking
    \/ get_amenity_places
    \/ get_irish_street_names
    \/ get_vacant_buildings
    \/ Finish

Spec == Init /\ [][Next]_vars

(***************************************************************************)
(* Properties.                                                             *)
(***************************************************************************)
Ended == pc \in {"done", "fault"}

Called(service) == \E k \in 1..Len(calls) : calls[k] = service

\* The coordinates the invocation works on (given, or derived by the
\* geocoder) lie outside latitude [-90, 90] or longitude [-180, 180].
InvalidCoordinates ==
    CASE tool = "get_distance_between_coords" ->
            \/ ~validate_coordinates(args.lat, args.lon)
            \/ ~validate_coordinates(args.lat2, args.lon2)
      [] tool \in {"get_address_by_coordinates", "query_overpass"} ->
            ~validate_coordinates(args.lat, args.lon)
      [] tool \in AddressTools ->
            /\ Called("geocodeForward")
            /\ world.geo.status = "found"
            /\ ~validate_coordinates(world.geo.lat, world.geo.lon)
      [] OTHER -> FALSE

GuardedCalls == {"spatialQuery", "geocodeReverse", "routeDistance"}

\* C1: whenever the coordinates a tool is given or derives are out of
\* range, the invocation issues no spatial query, reverse geocode or route
\* distance call, does not end in a fault, and returns a validation message.
C1_ValidatedBeforeExternalCall ==
    InvalidCoordinates =>
        /\ pc # "fault"
        /\ \A service \in GuardedCalls : ~Called(service)
        /\ pc = "done" => return_text.kind = "message"

\* The step of the primary chain (geocode, bounding box, spatial query)
\* that has failed in this invocation, "none" when none has: the geocoder
\* was asked and found nothing, or get_bounding_box was called with the
\* coordinates found and raised, or the store was asked and failed.
FailedStep ==
    IF ~Called("geocodeForward") THEN "none"
    ELSE IF world.geo.status = "notfound" THEN "geocode"
    ELSE IF world.geo.status # "found" THEN "none"
    ELSE IF /\ tool # "get_defibrillators"
            /\ ~get_bounding_box(world.geo.lat, world.geo.lon, args.distance).ok
    THEN "box"
    ELSE IF Called("spatialQuery") /\ world.store.status = "error" THEN "query"
    ELSE "none"

\* C2: in an address-based tool, when a step of the primary chain fails
\* the invocation stops there and returns one explanatory message: it does
\* not end in a fault, and when the origin or the box failed no spatial
\* query is issued.
C2_PrimaryFailureIsMessage ==
    (tool \in AddressTools /\ FailedStep # "none") =>
        /\ pc # "fault"
        /\ pc = "done" => return_text.kind = "message"
        /\ FailedStep \in {"geocode", "box"} => ~Called("spatialQuery")

\* get_defibrillators has ended, in an invocation during which the
\* geocoder finds the origin, a box exists for it and the store answers
\* with the list world.store.nodes of matching nodes.
DefibrillatorsEnded ==
    /\ tool = "get_defibrillators"
    /\ Ended
    /\ world.geo.status = "found"
    /\ get_bounding_box(world.geo.lat, world.geo.lon, args.distance).ok
    /\ world.store.status = "ok"

\* Position, on a defibrillator line (server.py lines 84-88), of the field
\* each lookup fills, and the values a failed lookup leaves there.
DefibField(lookup) ==
    CASE lookup = "distance" -> 1
      [] lookup = "building" -> 2
      [] lookup = "address" -> 3
Sentinels == {"Unknown", ""}

\* C3: get_defibrillators over N matched nodes returns a report of exactly
\* N detail lines whichever lookups fail; a lookup's field holds the
\* sentinel exactly when that lookup failed.
C3_EnrichmentToleratesFailure ==
    DefibrillatorsEnded =>
        /\ pc = "done"
        /\ return_text.kind = "report"
        /\ Len(return_text.lines) = Len(world.store.nodes)
        /\ \A i \in 1..Len(return_text.lines) :
             \A l \in {"distance", "building", "address"} :
                (<<i, l>> \in world.failed)
                    <=> (return_text.lines[i].fields[DefibField(l)] \in Sentinels)

\* C4: the i-th detail line of the report of get_defibrillators describes
\* the i-th node of the spatial query's result.
C4_EnrichmentKeepsOrder ==
    DefibrillatorsEnded =>
        /\ pc = "done"
        /\ Len(return_text.lines) = Len(world.store.nodes)
        /\ \A i \in 1..Len(return_text.lines) :
             return_text.lines[i].id = world.store.nodes[i].id

IrishDone == tool = "get_irish_street_names" /\ pc = "done"

\* The ways whose primary name no earlier way of the list carries.
FirstSeen(ways) ==
    { i \in 1..Len(ways) :
        \A j \in 1..(i - 1) :
            TagGet(ways[j].tags, "name", "") # TagGet(ways[i].tags, "name", "") }

\* Index in `ways` of the way a line was written for.
WayOfLine(ways, line) == CHOOSE i \in 1..Len(ways) : ways[i].id = line.id

C6_CountIsDeduplicated ==
    IrishDone => return_text.count = Len(return_text.lines)

VacantDone == tool = "get_vacant_buildings" /\ pc = "done"

\* C7: for a radius >= 0 the ratio get_vacant_buildings reports is the
\* count it reports divided by pi * radius^2 / 1,000,000 (here: the
\* multiple count * 1,000,000 / radius^2 of 1/pi), it is 0 for radius 0,
\* and the handler does not fault once the spatial query has answered.
C7_DensityRatio ==
    /\ (VacantDone /\ args.distance > 0) =>
          /\ return_text.count = Len(result.ways)
          /\ return_text.ratio = [num |-> return_text.count * SqMetresPerSqKm,
                                  den |-> args.distance * args.distance]
    /\ (VacantDone /\ args.distance = 0) =>
          /\ return_text.count = Len(result.ways)
          /\ return_text.ratio.num = 0
          /\ return_text.ratio.den # 0
    /\ (tool = "get_vacant_buildings" /\ result.status = "ok") => pc # "fault"

\* Radius 0 with two vacant buildings matched: ratio 0.
C7_Witness ==
    /\ VacantDone
    /\ args.distance = 0
    /\ return_text.count = 2
    /\ return_text.ratio.num = 0

\* The spatial query of this invocation has answered, with no node, no
\* way and no relation.
EmptyAnswer ==
    /\ result.status = "ok"
    /\ result.nodes = <<>>
    /\ result.ways = <<>>
    /\ result.relations = <<>>

\* C8: a category tool whose spatial query answers with nothing returns a
\* report with count 0 and no detail line; it does not fault and returns
\* no failure message.
C8_EmptyResultIsSuccess ==
    (tool \in AddressTools /\ EmptyAnswer) =>
        /\ pc # "fault"
        /\ pc = "done" =>
              /\ return_text.kind = "report"
              /\ return_text.count = 0
              /\ return_text.lines = <<>>

C8_Witness ==
    /\ tool = "get_toilets"
    /\ pc = "done"
    /\ EmptyAnswer
    /\ return_text.kind = "report"
    /\ return_text.count = 0
    /\ return_text.lines = <<>>

\* get_bounds_by_address has called get_bounding_box in this invocation,
\* for a centre of latitude in [-85, 85] and valid longitude and a radius
\* in (0, MaxRadius].
BoxInDomain ==
    /\ tool \in AddressTools \ {"get_defibrillators"}
    /\ pc \in {"query", "format", "done", "fault"}
    /\ world.geo.status = "found"
    /\ -85 * Micro <= world.geo.lat /\ world.geo.lat <= 85 * Micro
    /\ validate_coordinates(world.geo.lat, world.geo.lon)
    /\ 0 < args.distance /\ args.distance <= MaxRadius

\* C9: for a centre of latitude in [-85, 85] and valid longitude and a
\* radius in (0, 20000] get_bounding_box returns a box, and its
\* top_left_lat is greater than its bottom_right_lat.
C9_BoxTopAboveBottom ==
    BoxInDomain =>
        /\ bounding_box.ok
        /\ bounding_box.top_left_lat > bounding_box.bottom_right_lat

C9_Witness ==
    /\ BoxInDomain
    /\ pc = "query"
    /\ world.geo.lat = 85 * Micro
    /\ args.distance = 1
    /\ bounding_box.top_left_lat > bounding_box.bottom_right_lat

\* C10: the query document lists (bottom_right_lat, top_left_lon,
\* top_left_lat, bottom_right_lon) of the box get_bounding_box produced,
\* and its first number is less than its third (south < north).
C10_DocumentIsSouthWestNorthEast ==
    (query_template # NoDocument) =>
        /\ query_template.query = FilterOf(tool)
        /\ query_template.params =
              << bounding_box.bottom_right_lat, bounding_box.top_left_lon,
                 bounding_box.top_left_lat, bounding_box.bottom_right_lon >>
        /\ query_template.params[1] < query_template.params[3]

\* The names of the fixed amenity table, and the fragment of each.
AmenityTable ==
    {"parking", "toilets", "community_centre", "post_office", "cafe", "fast_food"}
FragmentOf(name) == "nwr[amenity=" \o name \o "]"

\* C11: get_amenity with a string that is not, letter for letter, a name
\* of the table returns an error value carrying that string and issues no
\* external call at any point of the invocation; with a name of the table
\* it sends the store the document built from that name's fragment.
C11_UnknownAmenityRejected ==
    (tool = "get_amenity") =>
        IF args.query \in AmenityTable
        THEN Ended => /\ Called("spatialQuery")
                      /\ query_template.query = FragmentOf(args.query)
        ELSE /\ calls = <<>>
             /\ query_template = NoDocument
             /\ pc # "fault"
             /\ pc = "done" => return_text = AmenityError(args.query)

C11_Witness ==
    /\ tool = "get_amenity"
    /\ pc = "done"
    /\ args.query = "Cafe"
    /\ return_text.kind = "error"
    /\ return_text.lines = <<"Cafe">>
    /\ calls = <<>>

ParkingDone == tool = "get_parking" /\ pc = "done"

\* The labelled fields of the tags of `tags` that are among `keys`.
Labelled(tags, keys) ==
    { <<ParkingFields[k][2], tags[j][2]>> :
        <<k, j>> \in { x \in (1..Len(ParkingFields)) \X (1..Len(tags)) :
                         /\ ParkingFields[x[1]][1] = tags[x[2]][1]
                         /\ tags[x[2]][1] \in keys } }

FieldsOf(line) == { line.fields[k] : k \in 1..Len(line.fields) }

ParkingKeys == {"name", "parking", "access", "operator", "capacity", "fee", "surface"}

\* C12 as stated: in every report of get_parking, the line of a way holds
\* a labelled field for a tag iff the tag is one of the seven and the way
\* has it; nothing else is on the line.
C12_FieldIffPresent ==
    ParkingDone =>
        \A i \in 1..Len(result.ways) :
            FieldsOf(return_text.lines[i]) = Labelled(result.ways[i].tags, ParkingKeys)

\* The tags of `tags` whose value is not the empty string.
NonEmpty(tags) == { tags[j][1] : j \in { x \in 1..Len(tags) : tags[x][2] # "" } }

\* C12, amended: in every report of get_parking, the line of a way holds a
\* labelled field for a tag iff the tag is one of the seven and the way has
\* it with a value that is not empty; each such field appears once, no
\* other tag appears, and a tag that is absent or empty leaves no text.
C12_FieldIffPresentAndNonEmpty ==
    ParkingDone =>
        /\ Len(return_text.lines) = Len(result.ways)
        /\ \A i \in 1..Len(result.ways) :
            LET line == return_text.lines[i]
                tags == result.ways[i].tags
            IN /\ FieldsOf(line) = Labelled(tags, ParkingKeys \cap NonEmpty(tags))
               /\ Cardinality(FieldsOf(line)) = Len(line.fields)
               /\ \A f \in FieldsOf(line) : f[2] # ""

C12_Witness ==
    /\ ParkingDone
    /\ \E i \in 1..Len(result.ways) :
        /\ HasTag(result.ways[i].tags, "operator")
        /\ TagGet(result.ways[i].tags, "operator", "x") = ""
        /\ FieldsOf(return_text.lines[i]) = { <<"Access", "yes">> }
    /\ \E i \in 1..Len(result.ways) :
        /\ HasTag(result.ways[i].tags, "website")
        /\ Len(return_text.lines[i].fields) = Len(ParkingFields)

\* The longitude offset of the box of an address tool: the one
\* get_bounding_box computes from the geocoded centre and the radius.
OffsetOfBox ==
    LonOffset(world.geo.lat, (args.distance * 1000) \div (MetresPerDegree \div 1000))

\* The largest longitude offset a returned box is built from.
MaxLonOffset == 90 * Micro

\* C13: for every geocoded centre, the poles and latitudes next to them
\* included, a box that get_bounding_box returns is built from a longitude
\* offset of at most 90 degrees, its corners differ from the centre's
\* longitude by that offset (wrapped), and where the offset diverges (at a
\* pole, with a radius that is not 0) there is no box: the call fails.
C13_NoBoxFromDivergedOffset ==
    (tool \in AddressTools /\ world.geo.status = "found") =>
        /\ bounding_box.ok =>
            /\ OffsetOfBox <= MaxLonOffset
            /\ bounding_box.top_left_lon
                 = Point(world.geo.lat, world.geo.lon - OffsetOfBox).longitude
            /\ bounding_box.bottom_right_lon
                 = Point(world.geo.lat, world.geo.lon + OffsetOfBox).longitude
        /\ OffsetOfBox > MaxLonOffset =>
            /\ bounding_box = NoBox
            /\ ~Called("spatialQuery")
            /\ pc # "done"

C13_Witness ==
    /\ tool \in AddressTools
    /\ world.geo.status = "found"
    /\ world.geo.lat = NearPole
    /\ args.distance = 1
    /\ bounding_box.ok
    /\ OffsetOfBox = 9 * NearPoleSecant
    /\ bounding_box.bottom_right_lon - bounding_box.top_left_lon = 2 * OffsetOfBox

Reported == pc = "done" /\ return_text.kind = "report"

\* C14: in every report of get_toilets, get_post_offices, get_cafes and
\* get_fast_food_places, the number of the leading count line is the
\* number of detail lines that follow it.
C14_CountIsNumberOfLines ==
    (tool \in AmenityTools /\ Reported) =>
        return_text.count = Len(return_text.lines)

\* The features of the store's answer that are of the kind named `kind`.
FeaturesOfKind(kind) ==
    CASE kind = "node" -> result.nodes
      [] kind = "way" -> result.ways
      [] kind = "relation" -> result.relations
      [] OTHER -> <<>>

\* C15: in every report, the reference of each detail line names the kind
\* and the id of a feature of the answer: the path segment is node, way or
\* relation and a feature of that kind has the line's id.
C15_ReferenceFromOwnKind ==
    Reported =>
        \A k \in 1..Len(return_text.lines) :
            LET line == return_text.lines[k]
            IN /\ line.kind \in {"node", "way", "relation"}
               /\ \E i \in 1..Len(FeaturesOfKind(line.kind)) :
                     FeaturesOfKind(line.kind)[i].id = line.id

\* C16: the raw-query tool, given valid centre coordinates, once it has
\* the box of (lat, lon, distance), ends by returning a report, after
\* exactly one spatial query sent for that box, the report having one line
\* per way, then per node, then per relation of the answer, each group in
\* the answer's order.
C16_RawQueryReports ==
    (/\ tool = "query_overpass"
     /\ validate_coordinates(args.lat, args.lon)
     /\ bounding_box.ok
     /\ Ended) =>
        /\ pc = "done"
        /\ calls = <<"spatialQuery">>
        /\ query_template
             = QueryDocument(args.query,
                             get_bounds_by_coords(args.lat, args.lon, args.distance))
        /\ return_text.kind = "report"
        /\ return_text.lines
             = TagLines("way", result.ways) \o TagLines("node", result.nodes)
               \o TagLines("relation", result.relations)

====
